---- MODULE Spec2Model ----
(***************************************************************************)
(* A model of backend/main.py: the /upload and /download/{job_id} routes   *)
(* of the photo scope application, the files they keep under uploads/ and  *)
(* reports/, and the layout of the PDF report.                             *)
(*                                                                         *)
(* Conventions.                                                            *)
(*  - A Python value is a tagged record [t, v]: t is the Python type       *)
(*    ("num", "str", "null", "list", "dict"), v the value.  A dict's v is  *)
(*    a function from its keys to Python values.                           *)
(*  - Money is counted in cents, so that the sums are exact integers; the  *)
(*    code's round(x, 2), applied only when a number is printed, leaves a  *)
(*    whole number of cents as it is.                                      *)
(*  - The bytes of an uploaded image are <<j, i>>: the i-th file of the    *)
(*    j-th request.  An empty file is <<>>.                                *)
(*  - A report file holds the sequence of strings drawn on the canvas,     *)
(*    each with its page and its vertical position.                        *)
(***************************************************************************)
EXTENDS Integers, Sequences, FiniteSets, TLC

(***************************************************************************)
(* Bounds of the model.                                                    *)
(***************************************************************************)
\* requests to /upload in the concurrent specification
MaxJobs == 2
\* files in one request of the concurrent specification
MaxImages == 2
\* files in one request of the pipeline specification (one request)
PipelineImages == 2
\* files in one request of the layout specification (one request)
LayoutImages == 9

\* original filenames the clients use
Filenames == {"photo.jpg"}
\* worker processes serving the application
Workers == {"w1", "w2"}
WorkerRank == [w \in Workers |-> IF w = "w1" THEN 1 ELSE 2]

(***************************************************************************)
(* Python values.                                                          *)
(***************************************************************************)
Num(n) == [t |-> "num", v |-> n]
Str(s) == [t |-> "str", v |-> s]
Null == [t |-> "null", v |-> 0]
List(s) == [t |-> "list", v |-> s]
Dict(d) == [t |-> "dict", v |-> d]

\* dict.get(key, default)
Get(d, key, default) == IF key \in DOMAIN d.v THEN d.v[key] ELSE default

(***************************************************************************)
(* XACTIMATE_CODES: the price table of the prompt, code -> description and *)
(* unit price in cents.                                                    *)
(***************************************************************************)
XACTIMATE_CODES ==
  [c \in {"WTR-101", "WTR-102", "DRY-202", "DRY-203", "CLN-303", "CLN-304",
          "FRM-401", "FRM-402", "PAI-501", "CLN-601", "CLN-602", "CLN-603",
          "FRM-701", "FRM-702", "PAI-701", "CLN-801", "CLN-802", "CLN-803",
          "CLN-804", "CLN-805", "FRM-901", "FRM-902", "FRM-903", "FRM-904",
          "FRM-905"} |->
     CASE c = "WTR-101" -> [desc |-> "Water extraction, per hour, per technician", price |-> 20500]
       [] c = "WTR-102" -> [desc |-> "Carpet water extraction, per sq. ft.", price |-> 340]
       [] c = "DRY-202" -> [desc |-> "Dehumidifier rental, per day", price |-> 5500]
       [] c = "DRY-203" -> [desc |-> "Air mover rental, per day", price |-> 3500]
       [] c = "CLN-303" -> [desc |-> "Antimicrobial application, per sq. ft.", price |-> 210]
       [] c = "CLN-304" -> [desc |-> "HEPA vacuuming, per sq. ft.", price |-> 105]
       [] c = "FRM-401" -> [desc |-> "Remove and replace drywall, per sq. ft.", price |-> 415]
       [] c = "FRM-402" -> [desc |-> "Remove and replace insulation, per sq. ft.", price |-> 180]
       [] c = "PAI-501" -> [desc |-> "Interior wall painting, per sq. ft.", price |-> 245]
       [] c = "CLN-601" -> [desc |-> "Smoke odor removal with ozone machine, per day", price |-> 8500]
       [] c = "CLN-602" -> [desc |-> "Thermal fogging for smoke odor, per sq. ft.", price |-> 170]
       [] c = "CLN-603" -> [desc |-> "Soot cleaning, heavy, per sq. ft.", price |-> 270]
       [] c = "FRM-701" -> [desc |-> "Replace fire-damaged framing, per linear foot", price |-> 1180]
       [] c = "FRM-702" -> [desc |-> "Replace roof decking, per sq. ft.", price |-> 495]
       [] c = "PAI-701" -> [desc |-> "Stain-block primer for smoke, per sq. ft.", price |-> 215]
       [] c = "CLN-801" -> [desc |-> "Mold remediation labor, per hour", price |-> 7400]
       [] c = "CLN-802" -> [desc |-> "Negative air machine rental, per day", price |-> 6000]
       [] c = "CLN-803" -> [desc |-> "Containment barrier installation, per sq. ft.", price |-> 145]
       [] c = "CLN-804" -> [desc |-> "Removal & disposal of contaminated drywall, per sq. ft.", price |-> 350]
       [] c = "CLN-805" -> [desc |-> "Application of fungicidal sealant, per sq. ft.", price |-> 245]
       [] c = "FRM-901" -> [desc |-> "Emergency board-up, per sq. ft.", price |-> 620]
       [] c = "FRM-902" -> [desc |-> "Roof tarp installation, per sq. ft.", price |-> 470]
       [] c = "FRM-903" -> [desc |-> "Window replacement, standard size", price |-> 59500]
       [] c = "FRM-904" -> [desc |-> "Siding repair, vinyl, per sq. ft.", price |-> 310]
       [] c = "FRM-905" -> [desc |-> "Fence panel replacement, wood, per panel", price |-> 10000]]

(***************************************************************************)
(* What the external capability answers.  The call either raises, or       *)
(* returns a text; the text either is no JSON, or is the JSON of a value.  *)
(***************************************************************************)
\* a line item priced as the table prices it
ItemTable ==
  Dict([code |-> Str("WTR-101"),
        desc |-> Str("Water extraction, per hour, per technician"),
        qty |-> Num(2), price |-> Num(20500), total |-> Num(41000)])
\* a line item of a code of the table, described and priced by the assessor
ItemOwnPrice ==
  Dict([code |-> Str("DRY-202"), desc |-> Str("Big fan"),
        qty |-> Num(3), price |-> Num(9900), total |-> Num(29700)])
\* a line item of a code the table does not have, with no price and no total
ItemUnpriced ==
  Dict([code |-> Str("ZZZ-999"), desc |-> Str("Debris haul-off"), qty |-> Num(1)])

ReplyRaise == [kind |-> "raise", name |-> "api error"]
ReplyNoJson == [kind |-> "text", name |-> "not json", valid_json |-> FALSE]
ReplyOf(name, value) ==
  [kind |-> "text", name |-> name, valid_json |-> TRUE, value |-> value]
\* {"scope": ..., "line_items": [ItemTable], "subtotal": 410.00}
ReplyGood ==
  ReplyOf("good",
          Dict([scope |-> Str("Extract water."), line_items |-> List(<<ItemTable>>),
                subtotal |-> Num(41000)]))
\* no "subtotal" key; a repriced item and an item with no total
ReplyNoSubtotal ==
  ReplyOf("no subtotal",
          Dict([scope |-> Str("Dry out."),
                line_items |-> List(<<ItemOwnPrice, ItemUnpriced>>)]))
\* a subtotal that is not the sum of the totals
ReplyWrongSubtotal ==
  ReplyOf("wrong subtotal",
          Dict([scope |-> Str("Extract water."), line_items |-> List(<<ItemTable>>),
                subtotal |-> Num(50000)]))
\* the JSON is a list of items, not an object
ReplyTopLevelList == ReplyOf("top-level list", List(<<ItemTable>>))
\* line_items is a list of strings
ReplyItemsNotObjects ==
  ReplyOf("items not objects",
          Dict([scope |-> Str("Extract water."), line_items |-> List(<<Str("WTR-101")>>),
                subtotal |-> Num(41000)]))
\* the subtotal is a string
ReplySubtotalString ==
  ReplyOf("subtotal string",
          Dict([scope |-> Str("Extract water."), line_items |-> List(<<ItemTable>>),
                subtotal |-> Str("$410.00")]))
Replies ==
  {ReplyRaise, ReplyNoJson, ReplyGood, ReplyNoSubtotal, ReplyWrongSubtotal,
   ReplyTopLevelList, ReplyItemsNotObjects, ReplySubtotalString}
BasicReplies == {ReplyRaise, ReplyGood}
ConcurrentReplies == {ReplyGood}

(***************************************************************************)
(* analyze_damage_with_ai: the except clause turns a failed call and a     *)
(* text json.loads rejects into the fallback result; any other parsed      *)
(* value is returned as it is.                                             *)
(***************************************************************************)
Fallback ==
  Dict([scope |-> Str("Unable to analyze image automatically."),
        line_items |-> List(<<>>), subtotal |-> Num(0)])

\* the same without the except clause: the exception leaves the function
analyze_unguarded(reply) ==
  IF reply.kind = "raise" \/ ~reply.valid_json
    THEN [exc |-> "Exception", value |-> Null]
    ELSE [exc |-> "none", value |-> reply.value]

analyze_damage_with_ai(reply) ==
  IF reply.kind = "raise" \/ ~reply.valid_json
    THEN [exc |-> "none", value |-> Fallback]
    ELSE [exc |-> "none", value |-> reply.value]

(***************************************************************************)
(* The body of the loop of upload_images after the analysis.               *)
(***************************************************************************)
\* sum(item.get("total", 0) for item in line_items), from position k on
RECURSIVE SumTotals(_, _)
SumTotals(items, k) ==
  IF k > Len(items) THEN [exc |-> "none", v |-> 0]
  ELSE IF items[k].t # "dict" THEN [exc |-> "AttributeError", v |-> 0]
  ELSE LET total == Get(items[k], "total", Num(0))
           rest == SumTotals(items, k + 1)
       IN IF total.t # "num" THEN [exc |-> "TypeError", v |-> 0]
          ELSE IF rest.exc # "none" THEN rest
          ELSE [exc |-> "none", v |-> total.v + rest.v]

\* the same sum over any Python value: a dict is iterated by its keys and a
\* string by its characters, which have no get(); a number and None are not
\* iterable
SumOf(line_items) ==
  CASE line_items.t = "list" -> SumTotals(line_items.v, 1)
    [] line_items.t = "dict" ->
         IF DOMAIN line_items.v = {} THEN [exc |-> "none", v |-> 0]
         ELSE [exc |-> "AttributeError", v |-> 0]
    [] line_items.t = "str" ->
         IF line_items.v = "" THEN [exc |-> "none", v |-> 0]
         ELSE [exc |-> "AttributeError", v |-> 0]
    [] OTHER -> [exc |-> "TypeError", v |-> 0]

\* lines 136-146: the result of one image and the new total_estimate, or the
\* exception that leaves upload_images
ProcessAnalysis(filename, analysis, total_estimate) ==
  IF analysis.t # "dict" THEN [exc |-> "AttributeError"]
  ELSE
    LET scope == Get(analysis, "scope", Str("No scope provided."))
        line_items == Get(analysis, "line_items", List(<<>>))
        sum == SumOf(line_items)
    IN IF sum.exc # "none" THEN [exc |-> sum.exc]
       ELSE
         LET subtotal == Get(analysis, "subtotal", Num(sum.v))
         IN IF subtotal.t # "num" THEN [exc |-> "TypeError"]
            ELSE [exc |-> "none",
                  total_estimate |-> total_estimate + subtotal.v,
                  result |-> [image |-> filename, scope |-> scope,
                              line_items |-> line_items, subtotal |-> subtotal]]

(***************************************************************************)
(* The report: what upload_images draws on the canvas, lines 151-199.      *)
(***************************************************************************)
\* y = 750, at the start and after c.showPage()
PageTop == 750
\* if y < 50: c.showPage()
BottomMargin == 50
\* the steps y goes down by after each string
TitleStep == 20
DateStep == 30
TotalStep == 30
ImageStep == 15
ScopeStep == 20
HeaderStep == 15
RowStep == 15
SubtotalStep == 30

Draw(kind, page, y, text) == [kind |-> kind, page |-> page, y |-> y, text |-> text]

\* what the for loop over result["line_items"] iterates: the items of a list;
\* an empty dict and an empty string, the other values that reach it, hold
\* nothing
Iterate(line_items) == IF line_items.t = "list" THEN line_items.v ELSE <<>>

\* the five cells of a row, lines 186-190
RowText(item) ==
  Dict([code |-> Get(item, "code", Str("")), desc |-> Get(item, "desc", Str("")),
        qty |-> Get(item, "qty", Str("")), price |-> Get(item, "price", Num(0)),
        total |-> Get(item, "total", Num(0))])

\* lines 185-194: a row is drawn at y, y goes down, and only then is the
\* page break tested
RECURSIVE DrawRows(_, _, _, _)
DrawRows(items, k, page, y) ==
  IF k > Len(items) THEN [draws |-> <<>>, page |-> page, y |-> y]
  ELSE LET brk == y - RowStep < BottomMargin
           rest == DrawRows(items, k + 1,
                            IF brk THEN page + 1 ELSE page,
                            IF brk THEN PageTop ELSE y - RowStep)
       IN [rest EXCEPT !.draws = <<Draw("row", page, y, RowText(items[k]))>> \o @]

\* lines 167-199: the sections of the images from the k-th on
RECURSIVE DrawResults(_, _, _, _)
DrawResults(results, k, page, y) ==
  IF k > Len(results) THEN <<>>
  ELSE LET r == results[k]
           yScope == y - ImageStep
           yHeader == yScope - ScopeStep
           rows == DrawRows(Iterate(r.line_items), 1, page, yHeader - HeaderStep)
       IN <<Draw("image", page, y, Str(r.image)),
            Draw("scope", page, yScope, r.scope),
            Draw("header", page, yHeader, Str("Code Description Qty Unit Price Total"))>>
          \o rows.draws
          \o <<Draw("subtotal", rows.page, rows.y, r.subtotal)>>
          \o DrawResults(results, k + 1, rows.page, rows.y - SubtotalStep)

\* lines 150-199: the whole document
render(job_id, total_estimate, results) ==
  <<Draw("title", 1, PageTop, Num(job_id)),
    Draw("date", 1, PageTop - TitleStep, Str("utcnow")),
    Draw("total", 1, PageTop - TitleStep - DateStep, Num(total_estimate))>>
  \o DrawResults(results, 1, 1, PageTop - TitleStep - DateStep - TotalStep)

(***************************************************************************)
(* The state.                                                              *)
(*   job[j]        the j-th request to /upload: where it stands (pc), the  *)
(*                 worker serving it, and the locals of upload_images      *)
(*   uploads       the files of UPLOAD_DIR: filename -> bytes              *)
(*   reports       the files of REPORT_DIR: job id -> what is written      *)
(*   lastDownload  the last answer of /download/{job_id}                   *)
(*                                                                         *)
(* pc: "idle" (not sent), "rejected" (answered 422), "open" (about to open *)
(* the idx-th file for writing), "read" (suspended in await file.read()),  *)
(* "analyze" (file written, about to analyze it), "compose" (loop over,    *)
(* about to save the canvas), "save" (report file open, nothing written),  *)
(* "done" (answered), "failed" (an exception left upload_images).          *)
(***************************************************************************)
VARIABLES job, uploads, reports, lastDownload

vars == <<job, uploads, reports, lastDownload>>

NoResponse == [status |-> 0, job_id |-> 0, total_estimate |-> 0, results |-> <<>>]

Init ==
  /\ job = [j \in 1..MaxJobs |->
              [pc |-> "idle", worker |-> "none", files |-> <<>>, job_id |-> 0,
               idx |-> 0, results |-> <<>>, total_estimate |-> 0,
               replies |-> <<>>, response |-> NoResponse]]
  /\ uploads = <<>>
  /\ reports = <<>>
  /\ lastDownload = [job_id |-> 0, found |-> FALSE, data |-> <<>>]

\* the job ids generated so far
Allocated == {job[j].job_id : j \in {k \in DOMAIN job : job[k].job_id # 0}}

\* an id generator that repeats itself: it gives an id already given
uuid4_repeating == IF Allocated = {} THEN 1 ELSE CHOOSE n \in Allocated : TRUE

\* str(uuid.uuid4()): an id no request has been given before
uuid4 == CHOOSE n \in 1..(Cardinality(Allocated) + 1) : n \notin Allocated

\* a file parameter with a default: a request without files is accepted
FilesOptional(files) == TRUE

\* files: List[UploadFile] = File(...): the parameter is required, and a
\* request that carries no file is answered 422 before upload_images runs
FilesPresent(files) == Len(files) >= 1

\* a worker runs one coroutine at a time: it is busy while a request it serves
\* is between two awaits
Busy(w) ==
  \E j \in DOMAIN job :
    job[j].worker = w /\ job[j].pc \in {"open", "analyze", "compose", "save"}

\* writing path p of a directory
WriteFile(dir, p, bytes) == [q \in DOMAIN dir \cup {p} |-> IF q = p THEN bytes ELSE dir[q]]

\* the requests are numbered in the order they arrive
Arrives(j) == job[j].pc = "idle" /\ (IF j = 1 THEN TRUE ELSE job[j - 1].pc # "idle")

\* the workers are named in the order they first serve a request
Serving == {job[j].worker : j \in DOMAIN job} \ {"none"}
Reaches(w) == w \in Serving \/ \A v \in Workers \ Serving : WorkerRank[w] <= WorkerRank[v]

\* the request carries no file: FastAPI answers 422, upload_images does not run
RejectUpload(j, w, files) ==
  /\ Arrives(j) /\ Reaches(w) /\ ~Busy(w)
  /\ ~FilesPresent(files)
  /\ job' = [job EXCEPT ![j].pc = "rejected", ![j].worker = w, ![j].files = files,
                        ![j].response = [NoResponse EXCEPT !.status = 422]]
  /\ UNCHANGED <<uploads, reports, lastDownload>>

\* lines 125-127: upload_images starts
StartUpload(j, w, files) ==
  /\ Arrives(j) /\ Reaches(w) /\ ~Busy(w)
  /\ FilesPresent(files)
  /\ job' = [job EXCEPT ![j].pc = IF Len(files) = 0 THEN "compose" ELSE "open",
                        ![j].worker = w, ![j].files = files,
                        ![j].job_id = uuid4, ![j].idx = 1]
  /\ UNCHANGED <<uploads, reports, lastDownload>>

\* lines 130-132: open(file_path, "wb") empties the file, then the coroutine
\* waits for file.read()
OpenUpload(j) ==
  /\ job[j].pc = "open"
  /\ uploads' = WriteFile(uploads, job[j].files[job[j].idx], <<>>)
  /\ job' = [job EXCEPT ![j].pc = "read"]
  /\ UNCHANGED <<reports, lastDownload>>

\* line 132: the coroutine resumes and writes the bytes it read; the file is
\* taken to hold exactly these bytes, also when another request emptied it
\* after this one opened it
WriteUpload(j) ==
  /\ job[j].pc = "read" /\ ~Busy(job[j].worker)
  /\ uploads' = WriteFile(uploads, job[j].files[job[j].idx], <<j, job[j].idx>>)
  /\ job' = [job EXCEPT ![j].pc = "analyze"]
  /\ UNCHANGED <<reports, lastDownload>>

\* lines 135-146: the file at file_path is read and sent to the capability,
\* which answers reply; the result is added, or an exception ends the request
Analyze(j, reply) ==
  /\ job[j].pc = "analyze"
  /\ LET filename == job[j].files[job[j].idx]
         analysis == analyze_damage_with_ai(reply)
         r == IF analysis.exc # "none" THEN [exc |-> analysis.exc]
              ELSE ProcessAnalysis(filename, analysis.value, job[j].total_estimate)
         seen == [job EXCEPT ![j].replies = Append(@, reply)]
     IN job' = IF r.exc # "none"
                 THEN [seen EXCEPT ![j].pc = "failed",
                                   ![j].response = [NoResponse EXCEPT !.status = 500]]
                 ELSE [seen EXCEPT ![j].results = Append(@, r.result),
                                   ![j].total_estimate = r.total_estimate,
                                   ![j].idx = @ + 1,
                                   ![j].pc = IF job[j].idx = Len(job[j].files)
                                               THEN "compose" ELSE "open"]
  /\ UNCHANGED <<uploads, reports, lastDownload>>

\* lines 149-201, first half: the canvas is drawn in memory, and c.save()
\* writes the file in place: it opens pdf_path for writing, which creates the
\* file empty, before the document is written to it
SaveOpen(j) ==
  /\ job[j].pc = "compose"
  /\ reports' = WriteFile(reports, job[j].job_id, <<>>)
  /\ job' = [job EXCEPT ![j].pc = "save"]
  /\ UNCHANGED <<uploads, lastDownload>>

\* lines 201-207: c.save() writes the document and upload_images answers
SaveWrite(j) ==
  /\ job[j].pc = "save"
  /\ reports' = WriteFile(reports, job[j].job_id,
                          render(job[j].job_id, job[j].total_estimate, job[j].results))
  /\ job' = [job EXCEPT ![j].pc = "done",
                        ![j].response = [status |-> 200, job_id |-> job[j].job_id,
                                         total_estimate |-> job[j].total_estimate,
                                         results |-> job[j].results]]
  /\ UNCHANGED <<uploads, lastDownload>>

\* lines 211-215: the answer to GET /download/{job_id}
download_report(job_id) ==
  IF job_id \notin DOMAIN reports
    THEN [job_id |-> job_id, found |-> FALSE, data |-> <<>>]
    ELSE [job_id |-> job_id, found |-> TRUE, data |-> reports[job_id]]

\* a client asks worker w for the report of job_id
Download(w, job_id) ==
  /\ ~Busy(w)
  /\ lastDownload' = download_report(job_id)
  /\ UNCHANGED <<job, uploads, reports>>

\* the lists of at most n filenames
FileLists(n) == UNION {[1..k -> Filenames] : k \in 0..n}

\* the ids a client may ask for: those generated, and one that is not
AskedIds == 1..(Cardinality(Allocated) + 1)

\* the requests J, of at most n files each, answered by the capability from R
Serve(J, n, R) ==
  \/ \E j \in J, w \in Workers, files \in FileLists(n) : RejectUpload(j, w, files)
  \/ \E j \in J, w \in Workers, files \in FileLists(n) : StartUpload(j, w, files)
  \/ \E j \in J : OpenUpload(j)
  \/ \E j \in J : WriteUpload(j)
  \/ \E j \in J, reply \in R : Analyze(j, reply)
  \/ \E j \in J : SaveOpen(j)
  \/ \E j \in J : SaveWrite(j)
  \/ \E w \in Workers, job_id \in AskedIds : Download(w, job_id)

\* concurrent requests of few files
Next == Serve(1..MaxJobs, MaxImages, ConcurrentReplies)
Spec == Init /\ [][Next]_vars

\* one request, every kind of answer of the capability
NextPipeline == Serve({1}, PipelineImages, Replies)
SpecPipeline == Init /\ [][NextPipeline]_vars

\* one request of many files
NextLayout == Serve({1}, LayoutImages, BasicReplies)
SpecLayout == Init /\ [][NextLayout]_vars

(***************************************************************************)
(* The claims.                                                             *)
(***************************************************************************)
Done(j) == job[j].pc = "done"
Failed(j) == job[j].pc = "failed"

\* every answer the j-th request got from the capability so far was a raise
AllRaised(j) == \A i \in DOMAIN job[j].replies : job[j].replies[i].kind = "raise"

\* the results of files all analysed by the fallback
FallbackResults(files) ==
  [i \in DOMAIN files |->
     [image |-> files[i], scope |-> Str("Unable to analyze image automatically."),
      line_items |-> List(<<>>), subtotal |-> Num(0)]]

\* C1: when the capability raises for every image of a request, no exception
\* leaves upload_images, and once the request is answered the answer carries
\* the job id and a download of that id finds the report, which is the report
\* of the fallback results, total 0.
C1_AllFailuresStillReport ==
  \A j \in DOMAIN job :
    AllRaised(j) =>
      /\ ~Failed(j)
      /\ Done(j) =>
           /\ job[j].response.status = 200
           /\ job[j].response.job_id = job[j].job_id /\ job[j].job_id # 0
           /\ download_report(job[j].job_id).found
           /\ download_report(job[j].job_id).data
                = render(job[j].job_id, 0, FallbackResults(job[j].files))

\* C1, its case: a request of two images, both answered by a raise, is done
\* and its report has been downloaded
C1_Witness ==
  \E j \in DOMAIN job :
    /\ Done(j) /\ Len(job[j].replies) >= 2 /\ AllRaised(j)
    /\ lastDownload.job_id = job[j].job_id /\ lastDownload.found
    /\ lastDownload.data # <<>>

\* a result with a list of objects as line items and a number as subtotal
WellFormed(r) ==
  /\ r.line_items.t = "list"
  /\ \A k \in DOMAIN r.line_items.v : r.line_items.v[k].t = "dict"
  /\ r.subtotal.t = "num"

\* C2: whatever text the capability returns, no exception leaves upload_images
\* and every result has a scope, a list of line items and a numeric subtotal.
C2_EveryTextGivesAResult ==
  \A j \in DOMAIN job :
    /\ ~Failed(j)
    /\ \A i \in DOMAIN job[j].results : WellFormed(job[j].results[i])

RECURSIVE SumSubtotals(_, _)
SumSubtotals(results, k) ==
  IF k > Len(results) THEN 0 ELSE results[k].subtotal.v + SumSubtotals(results, k + 1)

\* C3: the total_estimate of an answer is the sum of the subtotals of its
\* results, and each subtotal is the sum of the totals of its line items.
C3_TotalsAddUp ==
  \A j \in DOMAIN job :
    Done(j) =>
      LET r == job[j].response
      IN /\ r.total_estimate = SumSubtotals(r.results, 1)
         /\ reports[r.job_id][3].text = Num(r.total_estimate)
         /\ \A i \in DOMAIN r.results :
              r.results[i].subtotal.v = SumOf(r.results[i].line_items).v

\* the first half of C3 alone: the total_estimate returned and printed is the
\* sum of the subtotals
TotalIsSumOfSubtotals ==
  \A j \in DOMAIN job :
    Done(j) =>
      /\ job[j].response.total_estimate = SumSubtotals(job[j].response.results, 1)
      /\ reports[job[j].job_id][3].text = Num(job[j].response.total_estimate)

\* the rows of the report files
Rows == {d \in UNION {{reports[id][k] : k \in DOMAIN reports[id]} : id \in DOMAIN reports} :
           d.kind = "row"}

\* C4: a row whose code is a code of the price table shows the table's
\* description, and its total is its quantity times the table's unit price.
C4_TablePricesWin ==
  \A d \in Rows :
    LET row == d.text.v
    IN (row.code.t = "str" /\ row.code.v \in DOMAIN XACTIMATE_CODES) =>
         /\ row.desc = Str(XACTIMATE_CODES[row.code.v].desc)
         /\ row.total.t = "num" /\ row.qty.t = "num"
         /\ row.total.v = row.qty.v * XACTIMATE_CODES[row.code.v].price

\* C5: nothing is drawn below the bottom margin.
C5_DrawnInsideThePage ==
  \A id \in DOMAIN reports :
    \A k \in DOMAIN reports[id] : reports[id][k].y >= BottomMargin

\* C6: the file a request is about to analyse holds the bytes that request
\* uploaded, and the images a request has stored stay as it stored them.
C6_JobOwnsItsImages ==
  \A j \in DOMAIN job :
    /\ job[j].pc = "analyze" => uploads[job[j].files[job[j].idx]] = <<j, job[j].idx>>
    /\ \A i \in DOMAIN job[j].results : uploads[job[j].files[i]] = <<j, i>>

C8_EmptyUploadRejected ==
  /\ \A j \in DOMAIN job :
       (job[j].pc # "idle" /\ Len(job[j].files) = 0) =>
         /\ job[j].pc = "rejected"
         /\ job[j].job_id = 0
         /\ job[j].response.status = 422 /\ job[j].response.job_id = 0
  /\ \A j \in DOMAIN job : job[j].job_id # 0 => Len(job[j].files) >= 1
  /\ DOMAIN reports \subseteq Allocated

\* C8, its case: a request without files was sent and answered
C8_Witness ==
  \E j \in DOMAIN job : job[j].pc = "rejected" /\ Len(job[j].files) = 0

\* C9: in a request of several images no exception leaves upload_images, and
\* the answer has one result per image, in the order of the upload, and its
\* report is written.
C9_OneImageDoesNotAbortTheJob ==
  \A j \in DOMAIN job :
    Len(job[j].files) >= 2 =>
      /\ ~Failed(j)
      /\ Done(j) =>
           /\ Len(job[j].response.results) = Len(job[j].files)
           /\ \A i \in DOMAIN job[j].files :
                job[j].response.results[i].image = job[j].files[i]
           /\ job[j].job_id \in DOMAIN reports

\* C10: a download finds a report only when the report is completely written.
C10_NoPartialReportServed == lastDownload.found => lastDownload.data # <<>>
====
